---- MODULE Spec2Model ----
(***************************************************************************)
(* Model of src/src/service/TableUserFieldService.ts: the three exported   *)
(* functions extractUserCodesFromTable, createUserSelectValue and          *)
(* copyTableUsersToFields, applied by a caller to records it builds.       *)
(*                                                                         *)
(* JavaScript values are modelled structurally: an object is a TLA+ record *)
(* (a function from its own keys), an array is a sequence, a missing       *)
(* property is a key outside DOMAIN.  Objects whose identity matters (the  *)
(* record and its field objects, which copyTableUsersToFields copies with  *)
(* object spread) live in a heap and are referred to by address.           *)
(***************************************************************************)
EXTENDS Integers, Sequences, FiniteSets, TLC

VARIABLES
    tableField,   \* the SUBTABLE field object the caller is building
    heap,         \* sequence of heap objects; an address is an index
    record,       \* address of the record handed to copyTableUsersToFields (0: none yet)
    input,        \* the record literal the caller wrote (deep value), <<>> before
    call,         \* the last call made: its operation, arguments and outcome
    lastSet       \* the Set the last extractUserCodesFromTable call filled
                  \* (unreachable once that call has returned)

vars == <<tableField, heap, record, input, call, lastSet>>

(***************************************************************************)
(* Bounds of the explored inputs.                                          *)
(***************************************************************************)
MaxSize == 5         \* rows, users and malformed cells in a table
MaxRecordSize == 4   \* the same, for a table put in a record
MaxCodes == 4     \* length of a code list handed to createUserSelectValue
MaxOddSize == 4      \* rows and users of a table with irregular users or rows
MaxCallSize == 3     \* rows and users of a table in a record that is copied twice

(***************************************************************************)
(* Field identifiers (FIELD_CODES of ../config/fieldConfig, opaque keys).  *)
(***************************************************************************)
TABLE == "TABLE"
TABLE_USER_FIELD_1 == "TABLE_USER_FIELD_1"
TABLE_USER_FIELD_2 == "TABLE_USER_FIELD_2"
EXTERNAL_USER_FIELD_1 == "EXTERNAL_USER_FIELD_1"
EXTERNAL_USER_FIELD_2 == "EXTERNAL_USER_FIELD_2"

Columns == {TABLE_USER_FIELD_1, TABLE_USER_FIELD_2}
Targets == {EXTERNAL_USER_FIELD_1, EXTERNAL_USER_FIELD_2}

\* the external target fed by a table column
TargetOf(col) ==
    IF col = TABLE_USER_FIELD_1 THEN EXTERNAL_USER_FIELD_1 ELSE EXTERNAL_USER_FIELD_2

(***************************************************************************)
(* JavaScript values.                                                      *)
(***************************************************************************)
\* the value undefined, where an object was expected
Undefined == [undefined |-> TRUE]
\* a cell value that is not an array: the array-like object { 0: "text" }
NotArray == [i \in {0} |-> "text"]

\* obj[key] for an object-valued property: undefined when the key is missing
Get(obj, key) == IF key \in DOMAIN obj THEN obj[key] ELSE Undefined
\* truthiness of an object-or-undefined value (every object is truthy)
Truthy(v) == v # Undefined
\* truthiness of obj.value, an array or an object when present (both truthy)
TruthyValue(obj) == "value" \in DOMAIN obj
\* Array.isArray: arrays are the sequences, indexed from 1
IsArray(v) == 0 \notin DOMAIN v
\* Mutation of TruthyCode: only a missing code is rejected (code !== undefined)
TruthyCodeDefinedOnly(user) == "code" \in DOMAIN user

\* truthiness of user.code, a string or missing
TruthyCode(user) == "code" \in DOMAIN user /\ user.code # ""

\* outcome of a call: a returned value, or a thrown TypeError
Return(v) == [threw |-> FALSE, value |-> v]
Throw == [threw |-> TRUE]

Range(s) == {s[i] : i \in DOMAIN s}

(***************************************************************************)
(* extractUserCodesFromTable (TableUserFieldService.ts:19-40).             *)
(***************************************************************************)
\* Mutation of SetAdd: a plain array push, which keeps repeated codes
SetAddNoDedup(userCodes, code) == Append(userCodes, code)

\* Mutation of SetAdd: a re-added code moves to the end (last-seen order)
SetAddMoveToEnd(userCodes, code) ==
    Append(SelectSeq(userCodes, LAMBDA c : c # code), code)

\* Set.prototype.add on an insertion-ordered Set, kept as a duplicate-free sequence
SetAdd(userCodes, code) ==
    IF code \in Range(userCodes) THEN userCodes ELSE Append(userCodes, code)

\* Mutation of AddUsers: a user counts only when it has a name too
RECURSIVE AddUsersNeedName(_, _)
AddUsersNeedName(userCodes, users) ==
    IF users = <<>> THEN userCodes
    ELSE AddUsersNeedName(IF TruthyCode(Head(users)) /\ "name" \in DOMAIN Head(users)
                             THEN SetAdd(userCodes, Head(users).code)
                             ELSE userCodes,
                          Tail(users))

\* for (const user of userField.value) { if (user.code) userCodes.add(user.code) }
RECURSIVE AddUsers(_, _)
AddUsers(userCodes, users) ==
    IF users = <<>> THEN userCodes
    ELSE AddUsers(IF TruthyCode(Head(users))
                     THEN SetAdd(userCodes, Head(users).code)
                     ELSE userCodes,
                  Tail(users))

\* Mutation of AddRowUsers: the users of every column of the row are collected,
\* the tracked column first
AddRowUsersAnyColumn(userCodes, row, fieldCode) ==
    IF "value" \notin DOMAIN row THEN Throw
    ELSE LET users(col) ==
                 LET userField == Get(row.value, col)
                 IN  IF Truthy(userField) /\ TruthyValue(userField)
                        /\ IsArray(userField.value)
                     THEN userField.value ELSE <<>>
             others == CHOOSE col \in Columns : col # fieldCode
         IN  Return(AddUsers(AddUsers(userCodes, users(fieldCode)), users(others)))

\* Mutation of AddRowUsers: the cell is read without the guards of line 30,
\* so a missing cell, a cell without value or a non-array value is a TypeError
AddRowUsersUnguarded(userCodes, row, fieldCode) ==
    IF "value" \notin DOMAIN row THEN Throw
    ELSE LET userField == Get(row.value, fieldCode)
         IN  IF Truthy(userField) /\ TruthyValue(userField)
                /\ IsArray(userField.value)
                THEN Return(AddUsers(userCodes, userField.value))
                ELSE Throw

\* the body of the row loop for one row; row.value[fieldCode] throws when
\* row.value is undefined
AddRowUsers(userCodes, row, fieldCode) ==
    IF "value" \notin DOMAIN row THEN Throw
    ELSE LET userField == Get(row.value, fieldCode)
         IN  IF Truthy(userField) /\ TruthyValue(userField)
                /\ IsArray(userField.value)
                THEN Return(AddUsers(userCodes, userField.value))
                ELSE Return(userCodes)

\* Mutation of RowLoop: the loop ends at the first row whose cell is empty
RECURSIVE RowLoopStopAtEmpty(_, _, _)
RowLoopStopAtEmpty(userCodes, rows, fieldCode) ==
    IF rows = <<>> THEN Return(userCodes)
    ELSE LET row == Head(rows)
             r == AddRowUsers(userCodes, row, fieldCode)
         IN  IF r.threw THEN Throw
             ELSE IF fieldCode \in DOMAIN row.value
                     /\ "value" \in DOMAIN row.value[fieldCode]
                     /\ row.value[fieldCode].value = <<>>
                  THEN Return(userCodes)
             ELSE RowLoopStopAtEmpty(r.value, Tail(rows), fieldCode)

\* for (const row of tableData.value) ...
RECURSIVE RowLoop(_, _, _)
RowLoop(userCodes, rows, fieldCode) ==
    IF rows = <<>> THEN Return(userCodes)
    ELSE LET r == AddRowUsers(userCodes, Head(rows), fieldCode)
         IN  IF r.threw THEN Throw ELSE RowLoop(r.value, Tail(rows), fieldCode)

\* Mutation of ArrayFrom: the members are listed newest first
ArrayFromReversed(userCodes) ==
    [i \in 1..Len(userCodes) |-> userCodes[Len(userCodes) + 1 - i]]

\* Array.from(userCodes)
ArrayFrom(userCodes) == userCodes

\* Mutation of NewSet: one Set, created at module level, serves every call
NewSetShared == lastSet

\* line 22: new Set<string>()
NewSet == <<>>

\* the contents of the Set when the call ends (a call that throws leaves
\* nothing behind that a later call could reach)
SetLeft(r) == IF r.threw THEN <<>> ELSE r.value

\* Mutation of extractUserCodesFromTable: no early return, so the loop runs
\* over a missing row list (for ... of undefined is a TypeError)
extractUserCodesFromTableNoGuard(tableData, fieldCode) ==
    IF tableData = Undefined \/ ~TruthyValue(tableData) THEN Throw
    ELSE LET r == RowLoop(NewSet, tableData.value, fieldCode)
         IN  IF r.threw THEN Throw ELSE Return(ArrayFrom(r.value))

extractUserCodesFromTable(tableData, fieldCode) ==
    IF tableData = Undefined THEN Throw
    ELSE IF ~TruthyValue(tableData) \/ Len(tableData.value) = 0
         THEN Return(<<>>)
    ELSE LET r == RowLoop(NewSet, tableData.value, fieldCode)
         IN  IF r.threw THEN Throw ELSE Return(ArrayFrom(r.value))

(***************************************************************************)
(* createUserSelectValue (TableUserFieldService.ts:42-46).                 *)
(***************************************************************************)
\* Mutation of createUserSelectValue: the codes are de-duplicated again
createUserSelectValueUnique(userCodes) ==
    LET keep == {i \in DOMAIN userCodes :
                    \A j \in 1..(i - 1) : userCodes[j] # userCodes[i]}
    IN  [k \in 1..Cardinality(keep) |->
            [code |-> userCodes[CHOOSE i \in keep :
                                    Cardinality({j \in keep : j <= i}) = k]]]

\* userCodes.map((code) => ({ code }))
createUserSelectValue(userCodes) ==
    [i \in 1..Len(userCodes) |-> [code |-> userCodes[i]]]

(***************************************************************************)
(* copyTableUsersToFields (TableUserFieldService.ts:58-95).                *)
(* A record object maps each of its keys to the address of a field object. *)
(***************************************************************************)
\* allocate obj at a fresh address
Alloc(h, obj) == [heap |-> Append(h, obj), addr |-> Len(h) + 1]

\* record[key]: the field object, or undefined
Field(h, rec, key) == IF key \in DOMAIN h[rec] THEN h[h[rec][key]] ELSE Undefined

\* Mutation of SpreadRecord: no copy, updatedRecord is the record itself
SpreadRecordAlias(h, rec) == [heap |-> h, addr |-> rec]

\* Mutation of SpreadRecord: only the fields the service knows are copied
SpreadRecordKnown(h, rec) ==
    Alloc(h, [k \in DOMAIN h[rec] \cap ({TABLE} \cup Targets) |-> h[rec][k]])

\* { ...record }: a new object with the same key -> field object bindings
SpreadRecord(h, rec) == Alloc(h, h[rec])

\* Mutation of SpreadField: the target is replaced by a bare { value }
SpreadFieldValueOnly(externalField, value) == [value |-> value]

\* Mutation of SpreadField: the new entities are added to those the target held
SpreadFieldAppend(externalField, value) ==
    [k \in DOMAIN externalField \cup {"value"} |->
        IF k = "value"
        THEN (IF "value" \in DOMAIN externalField THEN externalField.value ELSE <<>>)
                \o value
        ELSE externalField[k]]

\* { ...externalField, value: value }
SpreadField(externalField, value) ==
    [k \in DOMAIN externalField \cup {"value"} |->
        IF k = "value" THEN value ELSE externalField[k]]

\* updatedRecord[key] = obj, obj a fresh object
AssignField(h, rec, key, obj) ==
    LET a == Alloc(h, obj)
    IN  [a.heap EXCEPT ![rec] =
            [k \in DOMAIN a.heap[rec] \cup {key} |->
                IF k = key THEN a.addr ELSE a.heap[rec][k]]]

\* Mutation of CopyColumn: a target is written only when codes were found, so
\* an empty extraction leaves its previous value
CopyColumnIfAny(h, updatedRecord, tableFld, fieldCode, externalCode) ==
    LET userCodes == extractUserCodesFromTable(tableFld, fieldCode)
        externalField == Field(h, updatedRecord, externalCode)
    IN  IF userCodes.threw THEN [threw |-> TRUE, heap |-> h]
        ELSE IF Truthy(externalField) /\ Len(userCodes.value) > 0
             THEN [threw |-> FALSE,
                   heap |-> AssignField(h, updatedRecord, externalCode,
                                SpreadField(externalField,
                                            createUserSelectValue(userCodes.value)))]
             ELSE [threw |-> FALSE, heap |-> h]

\* Mutation of CopyColumn: the second block still reads the first column
CopyColumnPasted(h, updatedRecord, tableFld, fieldCode, externalCode) ==
    LET userCodes == extractUserCodesFromTable(tableFld, TABLE_USER_FIELD_1)
        externalField == Field(h, updatedRecord, externalCode)
    IN  IF userCodes.threw THEN [threw |-> TRUE, heap |-> h]
        ELSE IF Truthy(externalField)
             THEN [threw |-> FALSE,
                   heap |-> AssignField(h, updatedRecord, externalCode,
                                SpreadField(externalField,
                                            createUserSelectValue(userCodes.value)))]
             ELSE [threw |-> FALSE, heap |-> h]

\* Mutation of CopyColumn: the target is written without the presence check
CopyColumnAlways(h, updatedRecord, tableFld, fieldCode, externalCode) ==
    LET userCodes == extractUserCodesFromTable(tableFld, fieldCode)
        externalField == Field(h, updatedRecord, externalCode)
        value == createUserSelectValue(userCodes.value)
    IN  IF userCodes.threw THEN [threw |-> TRUE, heap |-> h]
        ELSE [threw |-> FALSE,
              heap |-> AssignField(h, updatedRecord, externalCode,
                           IF Truthy(externalField)
                           THEN SpreadField(externalField, value)
                           ELSE [value |-> value])]

\* lines 69-79 and 82-92: one column's codes into its external field, when present
CopyColumn(h, updatedRecord, tableFld, fieldCode, externalCode) ==
    LET userCodes == extractUserCodesFromTable(tableFld, fieldCode)
        externalField == Field(h, updatedRecord, externalCode)
    IN  IF userCodes.threw THEN [threw |-> TRUE, heap |-> h]
        ELSE IF Truthy(externalField)
             THEN [threw |-> FALSE,
                   heap |-> AssignField(h, updatedRecord, externalCode,
                                SpreadField(externalField,
                                            createUserSelectValue(userCodes.value)))]
             ELSE [threw |-> FALSE, heap |-> h]

\* Mutation of TableMissing: a table without rows also returns early
TableMissingOrEmpty(tableFld) ==
    \/ ~Truthy(tableFld)
    \/ ~TruthyValue(tableFld)
    \/ Len(tableFld.value) = 0

\* Mutation of TableMissing: only the table field itself is tested
TableMissingOnly(tableFld) == ~Truthy(tableFld)

\* line 62: !tableField || !tableField.value
TableMissing(tableFld) == ~Truthy(tableFld) \/ ~TruthyValue(tableFld)

copyTableUsersToFields(h, rec) ==
    LET tableFld == Field(h, rec, TABLE)
    IN  IF TableMissing(tableFld)
        THEN [threw |-> FALSE, heap |-> h, value |-> rec]
        ELSE LET u  == SpreadRecord(h, rec)
                 c1 == CopyColumn(u.heap, u.addr, tableFld,
                                  TABLE_USER_FIELD_1, EXTERNAL_USER_FIELD_1)
                 c2 == CopyColumn(c1.heap, u.addr, tableFld,
                                  TABLE_USER_FIELD_2, EXTERNAL_USER_FIELD_2)
             IN  IF c1.threw THEN [threw |-> TRUE, heap |-> c1.heap, value |-> 0]
                 ELSE IF c2.threw THEN [threw |-> TRUE, heap |-> c2.heap, value |-> 0]
                 ELSE [threw |-> FALSE, heap |-> c2.heap, value |-> u.addr]

\* the deep (structural) value of the record at address rec
Deref(h, rec) == [k \in DOMAIN h[rec] |-> h[h[rec][k]]]

(***************************************************************************)
(* The caller: it builds a table row by row, then either calls             *)
(* extractUserCodesFromTable on it, or puts it in a record and calls       *)
(* copyTableUsersToFields.                                                 *)
(***************************************************************************)
\* user entities as kintone delivers them
Users ==
    { [code |-> "u1", name |-> "User 1"],
      [code |-> "u2", name |-> "User 2"],
      [code |-> "u3", name |-> "User 3"] }

\* a cell as the caller first writes it: absent from the row (no such key),
\* an empty user list, no value, or a value that is not an array
CellStarts == {"absent", "empty", "novalue", "notarray"}
Cell(start) ==
    IF start = "empty" THEN [type |-> "USER_SELECT", value |-> <<>>]
    ELSE IF start = "notarray" THEN [type |-> "USER_SELECT", value |-> NotArray]
    ELSE [type |-> "USER_SELECT"]
RowValue(s1, s2) ==
    [c \in {col \in Columns :
                (IF col = TABLE_USER_FIELD_1 THEN s1 ELSE s2) # "absent"} |->
        Cell(IF c = TABLE_USER_FIELD_1 THEN s1 ELSE s2)]

\* row ids are strings unrelated to the position of the row
IdDigits == <<"9", "8", "7", "6", "5", "4", "3", "2", "1">>
RowId(n) == IdDigits[n]

HasRows(tbl) == "value" \in DOMAIN tbl
\* the users of a cell of a row, <<>> when the cell holds no user list
CellUsers(row, col) ==
    IF "value" \in DOMAIN row /\ col \in DOMAIN row.value
       /\ "value" \in DOMAIN row.value[col] /\ IsArray(row.value[col].value)
    THEN row.value[col].value ELSE <<>>
\* 1 for a cell of a row that is present and holds no user list, else 0
Malformed(row, col) ==
    IF "value" \in DOMAIN row /\ col \in DOMAIN row.value
       /\ ~("value" \in DOMAIN row.value[col] /\ IsArray(row.value[col].value))
    THEN 1 ELSE 0
\* what the bounds count: the rows of a table, their users and their malformed cells
RECURSIVE Size(_)
Size(rows) ==
    IF rows = <<>> THEN 0
    ELSE 1 + Len(CellUsers(Head(rows), TABLE_USER_FIELD_1))
           + Len(CellUsers(Head(rows), TABLE_USER_FIELD_2))
           + Malformed(Head(rows), TABLE_USER_FIELD_1)
           + Malformed(Head(rows), TABLE_USER_FIELD_2)
           + Size(Tail(rows))

Building == record = 0 /\ call.op = "none"

Init ==
    /\ tableField = [type |-> "SUBTABLE"]
    /\ heap = <<>>
    /\ record = 0
    /\ input = <<>>
    /\ call = [op |-> "none"]
    /\ lastSet = <<>>

\* the caller gives the table an (empty) row list
SetRows ==
    /\ Building
    /\ ~HasRows(tableField)
    /\ tableField' = [type |-> "SUBTABLE", value |-> <<>>]
    /\ UNCHANGED <<heap, record, input, call, lastSet>>

\* the caller appends a row
AddRow(s1, s2) ==
    /\ Building
    /\ HasRows(tableField)
    /\ tableField' = [tableField EXCEPT !.value =
            Append(@, [id |-> RowId(Len(@) + 1), value |-> RowValue(s1, s2)])]
    /\ Size(tableField'.value) <= MaxSize
    /\ UNCHANGED <<heap, record, input, call, lastSet>>

\* the caller appends a user to a cell of the last row
AddUser(col, user) ==
    /\ Building
    /\ HasRows(tableField)
    /\ Len(tableField.value) > 0
    /\ Size(tableField.value) < MaxSize
    /\ LET n == Len(tableField.value)
           row == tableField.value[n]
       IN  /\ "value" \in DOMAIN row
           /\ col \in DOMAIN row.value
           /\ "value" \in DOMAIN row.value[col]
           /\ IsArray(row.value[col].value)
           /\ tableField' = [tableField EXCEPT !.value[n].value[col].value =
                                Append(@, user)]
    /\ UNCHANGED <<heap, record, input, call, lastSet>>

\* const result = extractUserCodesFromTable(tableData, fieldCode)
CallExtract(col) ==
    /\ Building
    /\ call' = [op |-> "extract", fieldCode |-> col,
                ret |-> extractUserCodesFromTable(tableField, col)]
    /\ lastSet' = SetLeft(call'.ret)
    /\ UNCHANGED <<tableField, heap, record, input>>

\* an external target field as the caller writes it
TargetStarts == {"absent", "empty", "stale"}
Target(start) ==
    [type |-> "USER_SELECT",
     value |-> IF start = "stale" THEN <<[code |-> "u9", name |-> "User 9"]>>
               ELSE <<>>]
Memo == [type |-> "SINGLE_LINE_TEXT", value |-> "memo"]

\* the record literal: the table (when wanted), the targets and an extra field
RecordLiteral(tbl, withTable, t1, t2, withMemo) ==
    [k \in (IF withTable THEN {TABLE} ELSE {})
           \cup (IF t1 # "absent" THEN {EXTERNAL_USER_FIELD_1} ELSE {})
           \cup (IF t2 # "absent" THEN {EXTERNAL_USER_FIELD_2} ELSE {})
           \cup (IF withMemo THEN {"memo"} ELSE {}) |->
        IF k = TABLE THEN tbl
        ELSE IF k = EXTERNAL_USER_FIELD_1 THEN Target(t1)
        ELSE IF k = EXTERNAL_USER_FIELD_2 THEN Target(t2)
        ELSE Memo]

\* the keys of a record in a fixed order, for allocation
KeyOrder == <<TABLE, EXTERNAL_USER_FIELD_1, EXTERNAL_USER_FIELD_2, "memo">>
KeysOf(lit) == SelectSeq(KeyOrder, LAMBDA k : k \in DOMAIN lit)
Index(seq, x) == CHOOSE i \in DOMAIN seq : seq[i] = x

\* the heap after evaluating the literal: its field objects, then the record
HeapOf(lit) ==
    LET keys == KeysOf(lit)
    IN  [i \in 1..(Len(keys) + 1) |->
            IF i <= Len(keys) THEN lit[keys[i]]
            ELSE [k \in DOMAIN lit |-> Index(keys, k)]]

\* const record = { ... }
NewRecord(withTable, t1, t2, withMemo) ==
    /\ Building
    /\ withTable \/ tableField = [type |-> "SUBTABLE"]
    /\ HasRows(tableField) => Size(tableField.value) <= MaxRecordSize
    /\ LET lit == RecordLiteral(tableField, withTable, t1, t2, withMemo)
       IN  /\ heap' = HeapOf(lit)
           /\ record' = Len(heap')
           /\ input' = lit
    /\ UNCHANGED <<tableField, call, lastSet>>

\* the Set the last extraction of a copyTableUsersToFields call leaves: that
\* of the second column, or the previous one when the call returns early
SetAfterCopy(h, rec) ==
    LET tableFld == Field(h, rec, TABLE)
    IN  IF TableMissing(tableFld) THEN lastSet
        ELSE SetLeft(extractUserCodesFromTable(tableFld, TABLE_USER_FIELD_2))

\* const result = copyTableUsersToFields(record)
CallCopy ==
    /\ record # 0
    /\ call.op = "none"
    /\ LET r == copyTableUsersToFields(heap, record)
       IN  /\ heap' = r.heap
           /\ call' = [op |-> "copy", threw |-> r.threw, value |-> r.value]
    /\ lastSet' = SetAfterCopy(heap, record)
    /\ UNCHANGED <<tableField, record, input>>

\* code lists handed to createUserSelectValue
Codes == {"u1", "u2", "u3"}
CodeLists == UNION {[1..n -> Codes] : n \in 0..MaxCodes}

\* const result = createUserSelectValue(userCodes)
CallCreate(userCodes) ==
    /\ Building
    /\ call' = [op |-> "create", userCodes |-> userCodes,
                ret |-> createUserSelectValue(userCodes)]
    /\ UNCHANGED <<tableField, heap, record, input, lastSet>>

Next ==
    \/ SetRows
    \/ \E s1, s2 \in CellStarts : AddRow(s1, s2)
    \/ \E col \in Columns, user \in Users : AddUser(col, user)
    \/ \E col \in Columns : CallExtract(col)
    \/ \E withTable, withMemo \in BOOLEAN, t1, t2 \in TargetStarts :
            NewRecord(withTable, t1, t2, withMemo)
    \/ CallCopy

Spec == Init /\ [][Next]_vars

\* createUserSelectValue on its own, on every bounded code list
NextCreate == \E userCodes \in CodeLists : CallCreate(userCodes)

SpecCreate == Init /\ [][NextCreate]_vars

(***************************************************************************)
(* Irregular input: users whose code is falsy or whose name differs or is  *)
(* missing, rows without a value mapping, and a call without a table.      *)
(***************************************************************************)
\* a falsy code is "" or a missing code property (undefined; null behaves alike)
OddUsers ==
    { [code |-> "u1", name |-> "User 1"],
      [code |-> "u1", name |-> "Alias"],
      [code |-> "u1"],
      [code |-> "u2", name |-> "User 2"],
      [code |-> "", name |-> "Nobody"],
      [name |-> "No Code"] }

\* the caller appends a row that has an id but no value mapping
AddBareRow ==
    /\ Building
    /\ HasRows(tableField)
    /\ tableField' = [tableField EXCEPT !.value =
                        Append(@, [id |-> RowId(Len(@) + 1)])]
    /\ UNCHANGED <<heap, record, input, call, lastSet>>

\* const result = extractUserCodesFromTable(undefined, fieldCode), by a caller
\* that has no table
CallExtractAbsent(col) ==
    /\ Building
    /\ ~HasRows(tableField)
    /\ call' = [op |-> "extractAbsent", fieldCode |-> col,
                ret |-> extractUserCodesFromTable(Undefined, col)]
    /\ lastSet' = SetLeft(call'.ret)
    /\ UNCHANGED <<tableField, heap, record, input>>

NextOdd ==
    \/ SetRows
    \/ \E s1, s2 \in CellStarts :
            AddRow(s1, s2) /\ Size(tableField'.value) <= MaxOddSize
    \/ AddBareRow /\ Size(tableField'.value) <= MaxOddSize
    \/ \E col \in Columns, user \in OddUsers :
            AddUser(col, user) /\ Size(tableField'.value) <= MaxOddSize
    \/ \E col \in Columns : CallExtract(col)
    \/ \E col \in Columns : CallExtractAbsent(col)

SpecOdd == Init /\ [][NextOdd]_vars

(***************************************************************************)
(* Sequences of calls: extractions whose result is dropped, made while the *)
(* table is still being built, then two calls of copyTableUsersToFields:   *)
(* on one record twice, or on a record and then on the record returned.    *)
(***************************************************************************)
\* extractUserCodesFromTable(tableData, fieldCode), the result unused
EarlierExtract(col) ==
    /\ Building
    /\ lastSet' = SetLeft(extractUserCodesFromTable(tableField, col))
    /\ UNCHANGED <<tableField, heap, record, input, call>>

\* const again = copyTableUsersToFields(record), after a first call
CallCopyAgain ==
    /\ call.op = "copy"
    /\ ~call.threw
    /\ LET r == copyTableUsersToFields(heap, record)
       IN  /\ heap' = r.heap
           /\ call' = [op |-> "copyAgain", threw |-> r.threw, value |-> r.value,
                       before |-> Deref(heap, call.value)]
    /\ lastSet' = SetAfterCopy(heap, record)
    /\ UNCHANGED <<tableField, record, input>>

\* const twice = copyTableUsersToFields(result), result the record returned
\* by the first call
CallCopyResult ==
    /\ call.op = "copy"
    /\ ~call.threw
    /\ LET r == copyTableUsersToFields(heap, call.value)
       IN  /\ heap' = r.heap
           /\ call' = [op |-> "copyResult", threw |-> r.threw, value |-> r.value,
                       before |-> Deref(heap, call.value)]
    /\ lastSet' = SetAfterCopy(heap, call.value)
    /\ UNCHANGED <<tableField, record, input>>

NextCalls ==
    \/ SetRows
    \/ \E s1, s2 \in CellStarts :
            AddRow(s1, s2) /\ Size(tableField'.value) <= MaxCallSize
    \/ \E col \in Columns, user \in Users :
            AddUser(col, user) /\ Size(tableField'.value) <= MaxCallSize
    \/ \E col \in Columns : EarlierExtract(col)
    \/ \E withTable, withMemo \in BOOLEAN, t1, t2 \in TargetStarts :
            NewRecord(withTable, t1, t2, withMemo)
    \/ CallCopy
    \/ CallCopyAgain
    \/ CallCopyResult

SpecCalls == Init /\ [][NextCalls]_vars

(***************************************************************************)
(* Reference notions the properties are stated with.                       *)
(***************************************************************************)
\* the truthy codes of a user list, in order
CodesOf(users) ==
    LET t == SelectSeq(users, TruthyCode) IN [i \in 1..Len(t) |-> t[i].code]

\* the codes of a column as read: rows top to bottom, each cell left to right
RECURSIVE SeenCodes(_, _)
SeenCodes(rows, col) ==
    IF rows = <<>> THEN <<>>
    ELSE CodesOf(CellUsers(Head(rows), col)) \o SeenCodes(Tail(rows), col)

\* position of the first occurrence of x in seq
FirstIndex(seq, x) == CHOOSE i \in DOMAIN seq :
                        seq[i] = x /\ \A j \in 1..(i - 1) : seq[j] # x

\* seq without every element that occurred before
FirstOccurrences(seq) ==
    LET keep == {i \in DOMAIN seq : \A j \in 1..(i - 1) : seq[j] # seq[i]}
    IN  [k \in 1..Cardinality(keep) |->
            seq[CHOOSE i \in keep : Cardinality({j \in keep : j <= i}) = k]]

HasDuplicate(seq) == \E i, j \in DOMAIN seq : i # j /\ seq[i] = seq[j]

Extracted == call.op = "extract" /\ ~call.ret.threw
Copied == call.op = "copy"
Created == call.op = "create"
\* the record copyTableUsersToFields returned, as a deep value
Result == Deref(heap, call.value)
\* the rows of the table of the caller's record
InputHasTable == TABLE \in DOMAIN input
InputRows == input[TABLE].value

(***************************************************************************)
(* C1: the list extractUserCodesFromTable returns never holds a code       *)
(* twice, however often rows and cells of the column repeat it.            *)
(***************************************************************************)
C1_NoDuplicates ==
    Extracted => ~HasDuplicate(call.ret.value)

C1_Witness ==
    /\ Extracted
    /\ HasRows(tableField)
    /\ Len(tableField.value) = 2
    /\ HasDuplicate(CodesOf(CellUsers(tableField.value[1], call.fieldCode)))
    /\ Range(SeenCodes(SubSeq(tableField.value, 2, 2), call.fieldCode))
         \cap Range(SeenCodes(SubSeq(tableField.value, 1, 1), call.fieldCode)) # {}
    /\ Len(call.ret.value) = 1

(***************************************************************************)
(* C2: the returned list is ordered by first occurrence: x precedes y in   *)
(* the output exactly when x is first seen before y is first seen, reading *)
(* rows top to bottom and each cell left to right; codes seen as           *)
(* [a, b, a, c] give [a, b, c].                                            *)
(***************************************************************************)
C2_FirstSeenOrder ==
    Extracted /\ HasRows(tableField) =>
        LET out == call.ret.value
            seen == SeenCodes(tableField.value, call.fieldCode)
        IN  /\ Range(out) \subseteq Range(seen)
            /\ \A i, j \in DOMAIN out :
                    i < j <=> FirstIndex(seen, out[i]) < FirstIndex(seen, out[j])
            /\ out = FirstOccurrences(seen)

C2_Witness ==
    /\ Extracted
    /\ HasRows(tableField)
    /\ SeenCodes(tableField.value, call.fieldCode) = <<"u2", "u1", "u2", "u3">>
    /\ call.ret.value = <<"u2", "u1", "u3">>

(***************************************************************************)
(* C3: when the record holds the table with at least one row and external  *)
(* target i, the returned record's target i value is exactly               *)
(* createUserSelectValue(extractUserCodesFromTable(table, column i)): the  *)
(* de-duplicated first-seen codes of column i only, whatever the other     *)
(* column holds and whatever the target held before.                       *)
(***************************************************************************)
C3_TargetIsColumnCodes ==
    Copied /\ InputHasTable /\ HasRows(input[TABLE]) /\ Len(InputRows) >= 1 =>
        /\ ~call.threw
        /\ \A col \in Columns :
              TargetOf(col) \in DOMAIN input =>
                /\ Result[TargetOf(col)].value =
                      createUserSelectValue(
                          extractUserCodesFromTable(input[TABLE], col).value)
                /\ CodesOf(Result[TargetOf(col)].value) =
                      FirstOccurrences(SeenCodes(InputRows, col))

C3_Witness ==
    /\ Copied
    /\ InputHasTable /\ HasRows(input[TABLE]) /\ Len(InputRows) >= 1
    /\ Targets \subseteq DOMAIN input
    /\ input[EXTERNAL_USER_FIELD_2].value # <<>>
    /\ SeenCodes(InputRows, TABLE_USER_FIELD_1) = <<"u3">>
    /\ SeenCodes(InputRows, TABLE_USER_FIELD_2) = <<"u1", "u1">>
    /\ CodesOf(Result[EXTERNAL_USER_FIELD_2].value) = <<"u1">>

C5_NoTableUnchanged ==
    Copied /\ (~InputHasTable \/ ~HasRows(input[TABLE])) =>
        /\ ~call.threw
        /\ Result = input

C5_Witness ==
    /\ Copied
    /\ InputHasTable /\ ~HasRows(input[TABLE])
    /\ Targets \subseteq DOMAIN input
    /\ input[EXTERNAL_USER_FIELD_1].value # <<>>
    /\ Result[EXTERNAL_USER_FIELD_1].value = input[EXTERNAL_USER_FIELD_1].value

(***************************************************************************)
(* C6 as stated: createUserSelectValue returns one entity per code, in     *)
(* order, each entity being {code: <the code>, name: ""}.                  *)
(***************************************************************************)
C6_EntitiesCarryEmptyName ==
    Created =>
        /\ Len(call.ret) = Len(call.userCodes)
        /\ \A i \in DOMAIN call.userCodes :
              call.ret[i] = [code |-> call.userCodes[i], name |-> ""]

(***************************************************************************)
(* C7: createUserSelectValue keeps count and order and removes nothing:    *)
(* the output is as long as the input and its k-th entity's code is the    *)
(* k-th input code; the empty list gives the empty list.                   *)
(***************************************************************************)
C7_CountAndOrderKept ==
    Created =>
        /\ Len(call.ret) = Len(call.userCodes)
        /\ \A k \in DOMAIN call.userCodes : call.ret[k].code = call.userCodes[k]
        /\ call.userCodes = <<>> => call.ret = <<>>

C7_Witness ==
    /\ Created
    /\ call.userCodes = <<"u2", "u1", "u2">>
    /\ Len(call.ret) = 3
    /\ call.ret[3].code = "u2"

(***************************************************************************)
(* C8: copyTableUsersToFields never mutates its argument: the record and   *)
(* every object it refers to (table, rows, cells, external targets and     *)
(* their value lists) are the same after the call as before, also when     *)
(* the targets are refreshed.                                              *)
(***************************************************************************)
C8_InputNotMutated ==
    Copied =>
        /\ Deref(heap, record) = input
        /\ SubSeq(heap, 1, Len(HeapOf(input))) = HeapOf(input)

C8_Witness ==
    /\ Copied
    /\ call.value # record
    /\ EXTERNAL_USER_FIELD_1 \in DOMAIN input
    /\ input[EXTERNAL_USER_FIELD_1].value # <<>>
    /\ Result[EXTERNAL_USER_FIELD_1].value = <<[code |-> "u1"], [code |-> "u2"]>>

(***************************************************************************)
(* C9: the returned record has exactly the keys of the input record: when  *)
(* an external target is missing from the input no error is raised and the *)
(* result does not hold that field, though the column's codes were         *)
(* extracted.                                                              *)
(***************************************************************************)
C9_SameKeys ==
    Copied =>
        /\ ~call.threw
        /\ DOMAIN Result = DOMAIN input

C9_Witness ==
    /\ Copied
    /\ call.value # record
    /\ EXTERNAL_USER_FIELD_1 \notin DOMAIN input
    /\ extractUserCodesFromTable(input[TABLE], TABLE_USER_FIELD_1).value # <<>>
    /\ EXTERNAL_USER_FIELD_1 \notin DOMAIN Result

(***************************************************************************)
(* C10: every field of the input other than the two external targets (the  *)
(* table field and every extra key) has the same value in the returned     *)
(* record.                                                                 *)
(***************************************************************************)
C10_OtherFieldsKept ==
    Copied =>
        \A k \in DOMAIN input \ Targets :
            /\ k \in DOMAIN Result
            /\ Result[k] = input[k]
            /\ heap[call.value][k] = heap[record][k]

C10_Witness ==
    /\ Copied
    /\ call.value # record
    /\ {TABLE, "memo", EXTERNAL_USER_FIELD_1} \subseteq DOMAIN input
    /\ Len(InputRows) >= 1
    /\ Result[EXTERNAL_USER_FIELD_1] # input[EXTERNAL_USER_FIELD_1]
    /\ Result["memo"] = Memo

(***************************************************************************)
(* C11: refreshing an external target overwrites only its value attribute: *)
(* every other attribute of the field object (its type tag) is the same in *)
(* the result as in the input.                                             *)
(***************************************************************************)
C11_OnlyValueOverwritten ==
    Copied /\ ~call.threw =>
        \A t \in Targets \cap DOMAIN input :
            /\ DOMAIN Result[t] = DOMAIN input[t] \cup {"value"}
            /\ \A a \in DOMAIN input[t] \ {"value"} : Result[t][a] = input[t][a]

C11_Witness ==
    /\ Copied
    /\ call.value # record
    /\ EXTERNAL_USER_FIELD_2 \in DOMAIN input
    /\ input[EXTERNAL_USER_FIELD_2].value # <<>>
    /\ Result[EXTERNAL_USER_FIELD_2] =
          [type |-> "USER_SELECT", value |-> <<[code |-> "u3"]>>]

(***************************************************************************)
(* C12: extractUserCodesFromTable returns the empty list, without error,   *)
(* for a table whose row list is empty or missing.                         *)
(***************************************************************************)
C12_EmptyTableGivesEmptyList ==
    call.op = "extract" /\ (~HasRows(tableField) \/ tableField.value = <<>>) =>
        call.ret = Return(<<>>)

C12_Witness ==
    /\ call.op = "extract"
    /\ ~HasRows(tableField)
    /\ ~call.ret.threw
    /\ call.ret.value = <<>>

\* seq without its i-th element
RemoveAt(seq, i) == SubSeq(seq, 1, i - 1) \o SubSeq(seq, i + 1, Len(seq))
\* the table with its i-th row removed
WithoutRow(tbl, i) == [tbl EXCEPT !.value = RemoveAt(@, i)]
\* the cell of the row for the column holds an empty user list
EmptyCell(row, col) ==
    /\ "value" \in DOMAIN row
    /\ col \in DOMAIN row.value
    /\ "value" \in DOMAIN row.value[col]
    /\ row.value[col].value = <<>>
\* the row has a value mapping but no user list for the column: the column is
\* missing from it, or its cell has no value or a value that is not an array
MalformedCell(row, col) ==
    /\ "value" \in DOMAIN row
    /\ col \notin DOMAIN row.value \/ Malformed(row, col) = 1

(***************************************************************************)
(* C14: a row whose cell for the column holds an empty user list adds no   *)
(* code, and the rows before and after it are still processed: the result  *)
(* equals the result for the same table without that row.                  *)
(***************************************************************************)
C14_EmptyCellRowIsNeutral ==
    call.op = "extract" /\ HasRows(tableField) =>
        \A i \in DOMAIN tableField.value :
            EmptyCell(tableField.value[i], call.fieldCode) =>
                /\ ~call.ret.threw
                /\ call.ret = extractUserCodesFromTable(WithoutRow(tableField, i),
                                                        call.fieldCode)

C14_Witness ==
    /\ Extracted
    /\ HasRows(tableField)
    /\ Len(tableField.value) = 2
    /\ EmptyCell(tableField.value[1], call.fieldCode)
    /\ CellUsers(tableField.value[2], call.fieldCode) # <<>>
    /\ call.ret.value = <<"u1">>

(***************************************************************************)
(* C16: a malformed cell (the column missing from the row's value mapping, *)
(* a cell without value, a value that is not an array) raises no error:    *)
(* the cell is skipped and the codes of all other rows are returned.       *)
(***************************************************************************)
C16_MalformedCellSkipped ==
    call.op = "extract" /\ HasRows(tableField) =>
        \A i \in DOMAIN tableField.value :
            MalformedCell(tableField.value[i], call.fieldCode) =>
                /\ ~call.ret.threw
                /\ call.ret.value =
                      FirstOccurrences(SeenCodes(RemoveAt(tableField.value, i),
                                                 call.fieldCode))

C16_Witness ==
    /\ Extracted
    /\ HasRows(tableField)
    /\ Len(tableField.value) = 2
    /\ call.fieldCode \in DOMAIN tableField.value[1].value
    /\ Malformed(tableField.value[1], call.fieldCode) = 1
    /\ "value" \in DOMAIN tableField.value[1].value[call.fieldCode]
    /\ call.ret.value = <<"u2", "u1">>

(***************************************************************************)
(* C18: copyTableUsersToFields is total on well-formed records (table      *)
(* absent, empty, or with rows whose cells are present, empty or           *)
(* malformed; each external target present or absent): it returns a record *)
(* and raises no error.                                                    *)
(***************************************************************************)
C18_CopyIsTotal ==
    Copied =>
        /\ ~call.threw
        /\ call.value \in DOMAIN heap
        /\ DOMAIN heap[call.value] \subseteq DOMAIN input \cup Targets

C18_Witness ==
    /\ Copied
    /\ ~call.threw
    /\ InputHasTable /\ HasRows(input[TABLE]) /\ Len(InputRows) = 2
    /\ TABLE_USER_FIELD_1 \notin DOMAIN InputRows[1].value
    /\ Malformed(InputRows[2], TABLE_USER_FIELD_1) = 1
    /\ EXTERNAL_USER_FIELD_1 \in DOMAIN input
    /\ EXTERNAL_USER_FIELD_2 \notin DOMAIN input
    /\ Result[EXTERNAL_USER_FIELD_1].value = <<>>

\* the table with F applied to the user list of every well-formed cell
MapCells(tbl, F(_)) ==
    [tbl EXCEPT !.value =
        [i \in DOMAIN @ |->
            LET row == @[i]
            IN  IF "value" \notin DOMAIN row THEN row
                ELSE [row EXCEPT !.value =
                        [c \in DOMAIN @ |->
                            LET cell == @[c]
                            IN  IF "value" \in DOMAIN cell /\ IsArray(cell.value)
                                THEN [cell EXCEPT !.value = F(@)]
                                ELSE cell]]]]

\* a user whose code is "" or missing
FalsyUser(user) == "code" \notin DOMAIN user \/ user.code = ""
\* the table without its users of falsy code
WithoutFalsyUsers(tbl) ==
    MapCells(tbl, LAMBDA users : SelectSeq(users, LAMBDA u : ~FalsyUser(u)))
\* the table with the name of every user removed, or set to the same text
WithoutNames(tbl) ==
    MapCells(tbl, LAMBDA users :
        [i \in DOMAIN users |->
            [k \in DOMAIN users[i] \ {"name"} |-> users[i][k]]])
WithSameNames(tbl) ==
    MapCells(tbl, LAMBDA users :
        [i \in DOMAIN users |->
            [k \in DOMAIN users[i] \cup {"name"} |->
                IF k = "name" THEN "Same" ELSE users[i][k]]])
BareRow(row) == "value" \notin DOMAIN row

(***************************************************************************)
(* C13 as stated: extractUserCodesFromTable called with an absent table    *)
(* (the argument itself is undefined) returns the empty list and raises no *)
(* error.                                                                  *)
(***************************************************************************)
C13_AbsentTableGivesEmptyList ==
    call.op = "extractAbsent" =>
        /\ ~call.ret.threw
        /\ call.ret = Return(<<>>)

(***************************************************************************)
(* C15: a user whose code is falsy (empty or missing) never appears in the *)
(* result and does not stop the other users of its cell or of later rows   *)
(* from being collected: the result is that of the table without such      *)
(* users.                                                                  *)
(***************************************************************************)
C15_FalsyCodesExcluded ==
    Extracted /\ HasRows(tableField) =>
        /\ \A i \in DOMAIN call.ret.value : call.ret.value[i] # ""
        /\ call.ret = extractUserCodesFromTable(WithoutFalsyUsers(tableField),
                                                call.fieldCode)
        /\ Range(call.ret.value) =
              UNION { {u.code : u \in {v \in Range(CellUsers(tableField.value[i],
                                                             call.fieldCode)) :
                                          ~FalsyUser(v)}} :
                      i \in DOMAIN tableField.value }

C15_Witness ==
    /\ Extracted
    /\ HasRows(tableField)
    /\ Len(tableField.value) = 1
    /\ Len(CellUsers(tableField.value[1], call.fieldCode)) = 3
    /\ FalsyUser(CellUsers(tableField.value[1], call.fieldCode)[1])
    /\ call.ret.value = <<"u1", "u2">>

(***************************************************************************)
(* C17 as stated: a row without a value mapping is skipped and is not      *)
(* fatal: no error is raised and the codes of the other rows are returned. *)
(***************************************************************************)
C17_BareRowSkipped ==
    call.op = "extract" /\ HasRows(tableField)
        /\ (\E i \in DOMAIN tableField.value : BareRow(tableField.value[i])) =>
            /\ ~call.ret.threw
            /\ call.ret.value =
                  FirstOccurrences(SeenCodes(tableField.value, call.fieldCode))

(***************************************************************************)
(* C20: de-duplication is keyed on the code alone and no name is read:     *)
(* users with one code and different or missing names give one entry, and  *)
(* changing or removing names never changes the result.                    *)
(***************************************************************************)
C20_NamesNeverRead ==
    call.op = "extract" /\ HasRows(tableField) =>
        /\ call.ret = extractUserCodesFromTable(WithoutNames(tableField),
                                                call.fieldCode)
        /\ call.ret = extractUserCodesFromTable(WithSameNames(tableField),
                                                call.fieldCode)
        /\ ~call.ret.threw => ~HasDuplicate(call.ret.value)

C20_Witness ==
    /\ Extracted
    /\ HasRows(tableField)
    /\ Len(tableField.value) = 1
    /\ CellUsers(tableField.value[1], call.fieldCode) =
          <<[code |-> "u1", name |-> "User 1"],
            [code |-> "u1"],
            [code |-> "u1", name |-> "Alias"]>>
    /\ call.ret.value = <<"u1">>

(***************************************************************************)
(* C19: copyTableUsersToFields is deterministic and keeps no state between *)
(* calls: whatever calls came before, a call on a record gives the result  *)
(* a first call on that record gives, and two calls on one record give     *)
(* equal results.                                                          *)
(***************************************************************************)
C19_NoCrossCallState ==
    /\ call.op = "copyAgain" =>
          /\ ~call.threw
          /\ Deref(heap, call.value) = call.before
    /\ call.op \in {"copy", "copyAgain"} /\ ~call.threw =>
          LET fresh == HeapOf(input)
              first == copyTableUsersToFields(fresh, Len(fresh))
          IN  Deref(heap, call.value) = Deref(first.heap, first.value)

C19_Witness ==
    /\ call.op = "copyAgain"
    /\ call.value # record
    /\ Targets \subseteq DOMAIN input
    /\ SeenCodes(InputRows, TABLE_USER_FIELD_1) = <<"u1">>
    /\ SeenCodes(InputRows, TABLE_USER_FIELD_2) = <<"u2">>
    /\ call.before[EXTERNAL_USER_FIELD_1].value = <<[code |-> "u1"]>>
    /\ Deref(heap, call.value)[EXTERNAL_USER_FIELD_2].value = <<[code |-> "u2"]>>
\* the cell of the row for the column holds a user list (it is well-formed)
WellFormedCell(row, col) ==
    /\ "value" \in DOMAIN row
    /\ col \in DOMAIN row.value
    /\ "value" \in DOMAIN row.value[col]
    /\ IsArray(row.value[col].value)
\* the entities of the column: <<i, j>> is the j-th user of the cell of row i
Entities(rows, col) ==
    UNION { {<<i, j>> : j \in DOMAIN rows[i].value[col].value} :
            i \in {k \in DOMAIN rows : WellFormedCell(rows[k], col)} }
\* the truthy codes among them
TruthyCodes(rows, col) ==
    { rows[e[1]].value[col].value[e[2]].code :
        e \in {d \in Entities(rows, col) :
                  ~FalsyUser(rows[d[1]].value[col].value[d[2]])} }

(***************************************************************************)
(* C21: extractUserCodesFromTable is sound and complete: the set of codes  *)
(* it returns is exactly the set of truthy codes of the entities in        *)
(* well-formed cells of the tracked column over all rows (none invented,   *)
(* none dropped, none taken from the other column), so the list is no      *)
(* longer than the number of entities seen.                                *)
(***************************************************************************)
C21_SoundAndComplete ==
    Extracted /\ HasRows(tableField) =>
        LET rows == tableField.value
            out == call.ret.value
        IN  /\ Range(out) = TruthyCodes(rows, call.fieldCode)
            /\ Len(out) <= Cardinality(Entities(rows, call.fieldCode))

C21_Witness ==
    /\ Extracted
    /\ HasRows(tableField)
    /\ call.fieldCode = TABLE_USER_FIELD_1
    /\ Len(tableField.value) = 1
    /\ Cardinality(Entities(tableField.value, TABLE_USER_FIELD_1)) = 2
    /\ TruthyCodes(tableField.value, TABLE_USER_FIELD_1) = {"u1"}
    /\ TruthyCodes(tableField.value, TABLE_USER_FIELD_2) = {"u2"}
    /\ call.ret.value = <<"u1">>
(***************************************************************************)
(* C22: with the table field present and its row list empty, every         *)
(* external target present in the record gets the empty list as its value, *)
(* whatever codes it held before; only a table that is absent or has no    *)
(* value leaves the targets as they were: then the result's targets are    *)
(* the input's own field objects, and with any table that has a row list   *)
(* they are new objects.                                                   *)
(***************************************************************************)
C22_EmptyTableClearsTarget ==
    Copied /\ ~call.threw =>
        \A t \in Targets \cap DOMAIN input :
            /\ InputHasTable /\ HasRows(input[TABLE]) /\ InputRows = <<>> =>
                  Result[t].value = <<>>
            /\ ~InputHasTable \/ ~HasRows(input[TABLE]) =>
                  /\ Result[t].value = input[t].value
                  /\ heap[call.value][t] = heap[record][t]
            /\ InputHasTable /\ HasRows(input[TABLE]) =>
                  heap[call.value][t] # heap[record][t]

C22_Witness ==
    /\ Copied
    /\ ~call.threw
    /\ InputHasTable /\ HasRows(input[TABLE]) /\ InputRows = <<>>
    /\ Targets \subseteq DOMAIN input
    /\ \A t \in Targets : input[t].value = <<[code |-> "u9", name |-> "User 9"]>>
    /\ \A t \in Targets : Result[t].value = <<>>
(***************************************************************************)
(* C23: copyTableUsersToFields is idempotent: applied to the record it     *)
(* returned, it returns a record structurally equal to that record; the    *)
(* table of the result is the table of the input, and the targets follow   *)
(* from the table alone.                                                   *)
(***************************************************************************)
C23_Idempotent ==
    call.op = "copyResult" =>
        /\ ~call.threw
        /\ Deref(heap, call.value) = call.before
        /\ InputHasTable => call.before[TABLE] = input[TABLE]

C23_Witness ==
    /\ call.op = "copyResult"
    /\ ~call.threw
    /\ Targets \subseteq DOMAIN input
    /\ input[EXTERNAL_USER_FIELD_1].value # <<>>
    /\ InputHasTable /\ HasRows(input[TABLE])
    /\ SeenCodes(InputRows, TABLE_USER_FIELD_1) = <<"u2", "u1">>
    /\ call.before[EXTERNAL_USER_FIELD_1].value = <<[code |-> "u2"], [code |-> "u1"]>>
    /\ Deref(heap, call.value)[EXTERNAL_USER_FIELD_1].value =
          <<[code |-> "u2"], [code |-> "u1"]>>
    /\ call.value \notin {record, Len(HeapOf(input)) + 1}
\* the table cut down to its first n rows
FirstRows(tbl, n) == [tbl EXCEPT !.value = SubSeq(@, 1, n)]
\* p is an initial segment of s
IsPrefix(p, s) == Len(p) <= Len(s) /\ SubSeq(s, 1, Len(p)) = p

(***************************************************************************)
(* C24: extraction is prefix-monotone in the rows: the result for a table  *)
(* starts with the result for each table made of its first n rows, so rows *)
(* appended to a table never remove or reorder codes already produced.     *)
(***************************************************************************)
C24_PrefixMonotone ==
    Extracted /\ HasRows(tableField) =>
        \A n \in 0..Len(tableField.value) :
            LET shorter == extractUserCodesFromTable(FirstRows(tableField, n),
                                                    call.fieldCode)
            IN  /\ ~shorter.threw
                /\ IsPrefix(shorter.value, call.ret.value)

C24_Witness ==
    /\ Extracted
    /\ HasRows(tableField)
    /\ Len(tableField.value) = 2
    /\ extractUserCodesFromTable(FirstRows(tableField, 1), call.fieldCode)
          = Return(<<"u1">>)
    /\ SeenCodes(tableField.value, call.fieldCode) = <<"u1", "u1", "u2">>
    /\ call.ret.value = <<"u1", "u2">>

====
